---- MODULE Spec2Model ----
(***************************************************************************)
(* Daily Papers Podcast: the generation cycle of src/app.py                *)
(* (generate_podcast, run by the Streamlit script) and of                  *)
(* src/cloudflare_app.py (run_podcast_generation, which also uploads).     *)
(*                                                                         *)
(* The file system (last_run.txt, the conversation JSON, the show notes,   *)
(* the merged episode, the per-line audio_<i>.mp3 clips) and the R2 bucket *)
(* are the shared state; each process is one run of the script and walks   *)
(* through the statements of the cycle.  The completion endpoint, the      *)
(* speech synthesis, the decoder and the upload are external: their        *)
(* answers are drawn from small sets.                                      *)
(***************************************************************************)
EXTENDS Integers, Sequences, FiniteSets, TLC

\* ---------------------------------------------------------------- bounds
MaxDay == 2        \* calendar days the clock runs through
MaxLines == 2      \* longest conversation the model answers with

\* ------------------------------------------------------------- constants
max_retries == 3   \* app.py: extract_conversation(text, items, max_retries=3)

Procs == {1, 2}
Variants == {"app", "cloudflare"}
Artifacts == {"conversation", "notes", "episode"}
NoDate == -1       \* last_run.txt does not exist

\* The feed read at import time: the sequence of paper records.
Feeds == {<<"p1", "p2">>}

\* The two hosts the prompt's template names, who take turns.
Speakers == <<"Brian", "Jenny">>

TextOf(speaker) ==
  IF speaker = "Brian" THEN "hi" ELSE IF speaker = "Jenny" THEN "ok" ELSE "yo"

Line(speaker) == [speaker |-> speaker, text |-> TextOf(speaker)]

\* A dialogue of n turns that starts with speaker number first.
Dialogue(n, first) ==
  [i \in 1..n |-> Line(Speakers[((first + i - 2) % Len(Speakers)) + 1])]

\* The conversations the endpoint may answer with: the dialogues of up to
\* MaxLines turns, the empty one included, and one line by a speaker the
\* template does not know (nothing makes the model keep to the two names).
Conversations ==
  {Dialogue(n, first) : n \in 0..MaxLines, first \in 1..Len(Speakers)}
    \cup {<<Line("Alice")>>}

\* What json.loads returns: an object that has a "conversation" list, or one
\* that has no such key (the pattern matched some other object).
JsonValues ==
  {[hasConversation |-> TRUE, conversation |-> c] : c \in Conversations}
    \cup {[hasConversation |-> FALSE, conversation |-> <<>>]}

NoJson == [hasConversation |-> FALSE, conversation |-> <<>>]

\* One answer of client.chat.completions.create as extract_conversation sees it:
\* the call raises, re.search finds nothing, json.loads rejects the match, or
\* json.loads returns a value.
Responses ==
  { [kind |-> "api_error", value |-> NoJson],
    [kind |-> "no_match", value |-> NoJson],
    [kind |-> "bad_json", value |-> NoJson] }
    \cup {[kind |-> "json", value |-> v] : v \in JsonValues}

Parseable(r) == r.kind = "json"

\* ---------------------------------------------------------------- speech
Voice(speaker) ==
  IF speaker = "Brian" THEN "en-GB-RyanNeural" ELSE "en-US-AvaMultilingualNeural"

Speech(line) == [voice |-> Voice(line.speaker), text |-> line.text]

NoClip == [voice |-> "", text |-> ""]

\* Faulty variant: every line is saved to the same clip file.
OutputFileShared(i) == 1

\* output_file = f"audio_{i}.mp3": line i is saved to clip file i.
OutputFile(i) == i

generate_show_notes(its) == [i \in 1..Len(its) |-> <<i, its[i]>>]

VARIABLES
  variant,        \* which script runs: app.py or cloudflare_app.py
  today,          \* datetime.today(), day granularity
  lastRun,        \* LAST_RUN_FILE: the date it holds, or NoDate
  convFile,       \* CONVERSATION_FILE: [exists, data]
  notesFile,      \* SHOW_NOTES_FILE
  podcastFile,    \* PODCAST_FILE: the merged clips
  audioFiles,     \* audio_<i>.mp3, shared by every cycle in the directory
  bucket,         \* R2: the artifacts the bucket holds a copy of
  pc,             \* the statement each process is at
  phase,          \* app.py: "load" (line 163) or "force" (line 217)
  click,          \* app.py: the script run was started by the button
  items,          \* the feed items of the script run
  attempt,        \* extract_conversation's loop variable
  conversation,   \* the local variable conversation
  tasks,          \* the synthesis tasks handed to asyncio.gather
  err,            \* the exception that ended the cycle, "" if none
  calls,          \* history: completion calls of this invocation
  sleeps,         \* history: time.sleep(2) calls of this invocation
  firstGood,      \* history: first attempt whose answer parsed, 0 if none
  wrote,          \* history: artifacts this invocation has written
  wroteMarker,    \* history: this invocation wrote last_run.txt
  uploaded,       \* uploads this invocation has completed
  outOfOrder,     \* history: a task finished before an earlier one
  startDay,       \* history: the day the invocation started
  doneToday,      \* history: a cycle began and succeeded within today
  failedDay       \* history: the date in last_run.txt when an upload last failed

vars == <<variant, today, lastRun, convFile, notesFile, podcastFile, audioFiles,
          bucket, pc, phase, click, items, attempt, conversation, tasks, err,
          calls, sleeps, firstGood, wrote, wroteMarker, uploaded, outOfOrder,
          startDay, doneToday, failedDay>>

files == <<convFile, notesFile, podcastFile, audioFiles>>
locals == <<attempt, conversation, tasks>>
script == <<phase, click, items>>
history == <<calls, sleeps, firstGood, wrote, wroteMarker, outOfOrder, startDay>>

Init ==
  /\ variant \in Variants
  /\ today = 1
  /\ lastRun = NoDate
  /\ convFile = [exists |-> FALSE, data |-> NoJson]
  /\ notesFile = [exists |-> FALSE, data |-> <<>>]
  /\ podcastFile = [exists |-> FALSE, data |-> <<>>]
  /\ audioFiles = [i \in 1..MaxLines |-> NoClip]
  /\ bucket = {}
  /\ pc = [p \in Procs |-> "idle"]
  /\ phase = [p \in Procs |-> "load"]
  /\ click = [p \in Procs |-> FALSE]
  /\ items = [p \in Procs |-> <<>>]
  /\ attempt = [p \in Procs |-> 0]
  /\ conversation = [p \in Procs |-> NoJson]
  /\ tasks = [p \in Procs |-> <<>>]
  /\ err = [p \in Procs |-> ""]
  /\ calls = [p \in Procs |-> 0]
  /\ sleeps = [p \in Procs |-> 0]
  /\ firstGood = [p \in Procs |-> 0]
  /\ wrote = [p \in Procs |-> {}]
  /\ wroteMarker = [p \in Procs |-> FALSE]
  /\ uploaded = [p \in Procs |-> 0]
  /\ outOfOrder = [p \in Procs |-> FALSE]
  /\ startDay = [p \in Procs |-> 0]
  /\ doneToday = FALSE
  /\ failedDay = NoDate


\* --------------------------------------------------------------- helpers
N(p) == Len(conversation[p].conversation)

\* audio_files: the list generate_audio_parallel returns.
audio_files(p) == [i \in 1..N(p) |-> OutputFile(i)]

UploadOrder == <<"episode", "notes", "conversation">>

FileOf(a) ==
  IF a = "episode" THEN podcastFile ELSE IF a = "notes" THEN notesFile ELSE convFile

\* A fresh call of generate_podcast / run_podcast_generation by process p.
BeginInvocation(p) ==
  /\ pc' = [pc EXCEPT ![p] = "gate"]
  /\ attempt' = [attempt EXCEPT ![p] = 0]
  /\ conversation' = [conversation EXCEPT ![p] = NoJson]
  /\ tasks' = [tasks EXCEPT ![p] = <<>>]
  /\ err' = [err EXCEPT ![p] = ""]
  /\ calls' = [calls EXCEPT ![p] = 0]
  /\ sleeps' = [sleeps EXCEPT ![p] = 0]
  /\ firstGood' = [firstGood EXCEPT ![p] = 0]
  /\ wrote' = [wrote EXCEPT ![p] = {}]
  /\ wroteMarker' = [wroteMarker EXCEPT ![p] = FALSE]
  /\ uploaded' = [uploaded EXCEPT ![p] = 0]
  /\ outOfOrder' = [outOfOrder EXCEPT ![p] = FALSE]
  /\ startDay' = [startDay EXCEPT ![p] = today]

\* The script has ended: its locals are gone.
EndScript(p) ==
  /\ pc' = [pc EXCEPT ![p] = "idle"]
  /\ phase' = [phase EXCEPT ![p] = "load"]
  /\ click' = [click EXCEPT ![p] = FALSE]
  /\ items' = [items EXCEPT ![p] = <<>>]
  /\ attempt' = [attempt EXCEPT ![p] = 0]
  /\ conversation' = [conversation EXCEPT ![p] = NoJson]
  /\ tasks' = [tasks EXCEPT ![p] = <<>>]
  /\ err' = [err EXCEPT ![p] = ""]
  /\ calls' = [calls EXCEPT ![p] = 0]
  /\ sleeps' = [sleeps EXCEPT ![p] = 0]
  /\ firstGood' = [firstGood EXCEPT ![p] = 0]
  /\ wrote' = [wrote EXCEPT ![p] = {}]
  /\ wroteMarker' = [wroteMarker EXCEPT ![p] = FALSE]
  /\ uploaded' = [uploaded EXCEPT ![p] = 0]
  /\ outOfOrder' = [outOfOrder EXCEPT ![p] = FALSE]
  /\ startDay' = [startDay EXCEPT ![p] = 0]

\* An exception leaves the cycle: its frame and the locals in it are gone.
Fail(p, why) ==
  /\ pc' = [pc EXCEPT ![p] = "failed"]
  /\ err' = [err EXCEPT ![p] = why]
  /\ attempt' = [attempt EXCEPT ![p] = 0]
  /\ conversation' = [conversation EXCEPT ![p] = NoJson]
  /\ tasks' = [tasks EXCEPT ![p] = <<>>]

\* --------------------------------------------------------------- the gate
\* Faulty variant: a gate that also looks at the other invocations (a lock).
AlreadyRanOrRunning(p) ==
  \/ (lastRun # NoDate /\ lastRun = today)
  \/ \E q \in Procs \ {p} : pc[q] \notin {"idle", "gate", "skipped", "done", "failed"}

\* Faulty variant: a gate that compares with the wrong date.
AlreadyRanYesterday(p) == lastRun # NoDate /\ lastRun = today - 1

\* os.path.exists(LAST_RUN_FILE) and last_run_date == today's date.
AlreadyRanToday(p) == lastRun # NoDate /\ lastRun = today

\* The script starts: the feed is read, then line 163 / line 156 calls the cycle.
RunScript(p) ==
  /\ pc[p] = "idle"
  /\ \E f \in Feeds, c \in (IF variant = "app" THEN BOOLEAN ELSE {FALSE}) :
       /\ items' = [items EXCEPT ![p] = f]
       /\ click' = [click EXCEPT ![p] = c]
  /\ phase' = [phase EXCEPT ![p] = "load"]
  /\ BeginInvocation(p)
  /\ UNCHANGED <<variant, today, lastRun, files, bucket, doneToday, failedDay>>

Gate(p) ==
  /\ pc[p] = "gate"
  /\ IF AlreadyRanToday(p)
       THEN /\ pc' = [pc EXCEPT ![p] = "skipped"]
            /\ UNCHANGED attempt
       ELSE /\ pc' = [pc EXCEPT ![p] = "extract"]
            /\ attempt' = [attempt EXCEPT ![p] = 1]
  /\ UNCHANGED <<variant, today, lastRun, files, bucket, script, conversation, tasks,
                 err, history, uploaded, doneToday, failedDay>>

\* ------------------------------------------------- extract_conversation
\* Faulty variant: the loop gives up one attempt early.
HasAttemptsLeftShort(p) == variant = "app" /\ attempt[p] < max_retries - 1

\* app.py: attempt < max_retries; cloudflare_app.py has no loop at all.
HasAttemptsLeft(p) == variant = "app" /\ attempt[p] < max_retries

\* conversation = extract_conversation(daily_feed, items), and on its return
\* save_to_file(json.dumps(conversation, indent=2), CONVERSATION_FILE).
ExtractFrom(p, answers) ==
  /\ pc[p] = "extract"
  /\ calls' = [calls EXCEPT ![p] = @ + 1]
  /\ \E r \in answers :
       IF Parseable(r)
         THEN /\ conversation' = [conversation EXCEPT ![p] = r.value]
              /\ firstGood' = [firstGood EXCEPT ![p] = attempt[p]]
              /\ convFile' = [exists |-> TRUE, data |-> r.value]
              /\ wrote' = [wrote EXCEPT ![p] = @ \cup {"conversation"}]
              /\ pc' = [pc EXCEPT ![p] = "save_notes"]
              /\ UNCHANGED <<err, attempt, tasks>>
         ELSE /\ IF HasAttemptsLeft(p)
                   THEN pc' = [pc EXCEPT ![p] = "sleep"] /\ UNCHANGED <<err, locals>>
                   ELSE Fail(p, "extract")
              /\ UNCHANGED <<firstGood, convFile, wrote>>
  /\ UNCHANGED <<variant, today, lastRun, notesFile, podcastFile, audioFiles, bucket,
                 script, sleeps, wroteMarker, outOfOrder, startDay,
                 uploaded, doneToday, failedDay>>

Extract(p) == ExtractFrom(p, Responses)

\* time.sleep(2), then the next iteration of the loop.
Sleep(p) ==
  /\ pc[p] = "sleep"
  /\ sleeps' = [sleeps EXCEPT ![p] = @ + 1]
  /\ attempt' = [attempt EXCEPT ![p] = @ + 1]
  /\ pc' = [pc EXCEPT ![p] = "extract"]
  /\ UNCHANGED <<variant, today, lastRun, files, bucket, script, conversation, tasks,
                 err, calls, firstGood, wrote, wroteMarker, outOfOrder, startDay,
                 uploaded, doneToday, failedDay>>

\* ------------------------------------------------------------ persistence
\* Faulty variant: the marker is written together with the show notes.
SaveShowNotesAndMark(p) ==
  /\ pc[p] = "save_notes"
  /\ notesFile' = [exists |-> TRUE, data |-> generate_show_notes(items[p])]
  /\ wrote' = [wrote EXCEPT ![p] = @ \cup {"notes"}]
  /\ lastRun' = today
  /\ wroteMarker' = [wroteMarker EXCEPT ![p] = TRUE]
  /\ pc' = [pc EXCEPT ![p] = "launch"]
  /\ UNCHANGED <<variant, today, convFile, podcastFile, audioFiles, bucket,
                 script, locals, err, calls, sleeps, firstGood,
                 outOfOrder, startDay, uploaded, doneToday, failedDay>>

\* save_to_file(generate_show_notes(items), SHOW_NOTES_FILE)
SaveShowNotes(p) ==
  /\ pc[p] = "save_notes"
  /\ notesFile' = [exists |-> TRUE, data |-> generate_show_notes(items[p])]
  /\ wrote' = [wrote EXCEPT ![p] = @ \cup {"notes"}]
  /\ pc' = [pc EXCEPT ![p] = "launch"]
  /\ UNCHANGED <<variant, today, lastRun, convFile, podcastFile, audioFiles, bucket,
                 script, locals, err, calls, sleeps, firstGood, wroteMarker,
                 outOfOrder, startDay, uploaded, doneToday, failedDay>>


\* ------------------------------------------------ generate_audio_parallel
\* The loop builds one coroutine per line and the list of file names; nothing
\* runs before asyncio.gather.  conversation["conversation"] raises KeyError
\* when the parsed object has no such key.
Launch(p) ==
  /\ pc[p] = "launch"
  /\ IF conversation[p].hasConversation
       THEN /\ tasks' = [tasks EXCEPT ![p] = [i \in 1..N(p) |-> "pending"]]
            /\ pc' = [pc EXCEPT ![p] = "gather"]
            /\ UNCHANGED <<err, attempt, conversation>>
       ELSE Fail(p, "launch")
  /\ UNCHANGED <<variant, today, lastRun, files, bucket, script,
                 history, uploaded, doneToday, failedDay>>

\* Task i finishes: Communicate(text, voice).save(output_file) has written its file.
TaskDone(p, i) ==
  /\ pc[p] = "gather"
  /\ i \in 1..N(p)
  /\ tasks[p][i] = "pending"
  /\ audioFiles' = [audioFiles EXCEPT ![OutputFile(i)] = Speech(conversation[p].conversation[i])]
  /\ tasks' = [tasks EXCEPT ![p][i] = "done"]
  /\ outOfOrder' = [outOfOrder EXCEPT ![p] = @ \/ \E j \in 1..(i - 1) : tasks[p][j] = "pending"]
  /\ UNCHANGED <<variant, today, lastRun, convFile, notesFile, podcastFile, bucket, pc,
                 script, attempt, conversation, err, calls, sleeps, firstGood, wrote,
                 wroteMarker, startDay, uploaded, doneToday, failedDay>>

\* Task i raises: gather hands the exception to the awaiting cycle, and
\* asyncio.run cancels whatever is still pending.  The clips that were already
\* saved stay on disk.
TaskFail(p, i) ==
  /\ pc[p] = "gather"
  /\ i \in 1..N(p)
  /\ tasks[p][i] = "pending"
  /\ Fail(p, "synthesis")
  /\ UNCHANGED <<variant, today, lastRun, files, bucket, script,
                 history, uploaded, doneToday, failedDay>>

\* Faulty variant: the join returns as soon as one task has finished.
JoinReadyAny(p) == N(p) = 0 \/ \E i \in 1..N(p) : tasks[p][i] = "done"

\* await asyncio.gather(*tasks) returns once every task has finished.
JoinReady(p) == \A i \in 1..N(p) : tasks[p][i] = "done"

Join(p) ==
  /\ pc[p] = "gather"
  /\ JoinReady(p)
  /\ pc' = [pc EXCEPT ![p] = "merge"]
  /\ UNCHANGED <<variant, today, lastRun, files, bucket, script, locals, err, history,
                 uploaded, doneToday, failedDay>>

\* ------------------------------------------------------- merge_audio_files
\* combined += AudioSegment.from_file(file) for each file in list order, then
\* export.  from_file raises on a missing or undecodable clip, before export.
Merged(fs) == [i \in 1..Len(fs) |-> audioFiles[fs[i]]]

Merge(p) ==
  /\ pc[p] = "merge"
  /\ \E decodes \in BOOLEAN :
       IF decodes /\ \A i \in 1..N(p) : audioFiles[audio_files(p)[i]] # NoClip
         THEN /\ podcastFile' = [exists |-> TRUE,
                                 data |-> Merged(audio_files(p))]
              /\ wrote' = [wrote EXCEPT ![p] = @ \cup {"episode"}]
              /\ pc' = [pc EXCEPT ![p] = "remove"]
              /\ UNCHANGED <<err, locals>>
         ELSE /\ Fail(p, "merge")
              /\ UNCHANGED <<podcastFile, wrote>>
  /\ UNCHANGED <<variant, today, lastRun, convFile, notesFile, audioFiles, bucket,
                 script, calls, sleeps, firstGood, wroteMarker, outOfOrder,
                 startDay, uploaded, doneToday, failedDay>>

\* for file in audio_files: os.remove(file).  os.remove raises on a file that is
\* gone; the files before it in the list are removed by then.
RemoveFails(p, i) ==
  \/ audioFiles[audio_files(p)[i]] = NoClip
  \/ \E j \in 1..(i - 1) : audio_files(p)[j] = audio_files(p)[i]

Remove(p) ==
  /\ pc[p] = "remove"
  /\ LET bad == {i \in 1..N(p) : RemoveFails(p, i)}
         stop == IF bad = {} THEN N(p) + 1 ELSE CHOOSE i \in bad : \A j \in bad : i <= j
         gone == {audio_files(p)[j] : j \in 1..(stop - 1)}
     IN /\ audioFiles' = [f \in DOMAIN audioFiles |->
                            IF f \in gone THEN NoClip ELSE audioFiles[f]]
        /\ IF bad = {}
             THEN pc' = [pc EXCEPT ![p] = "mark"] /\ UNCHANGED <<err, locals>>
             ELSE Fail(p, "remove")
  /\ UNCHANGED <<variant, today, lastRun, convFile, notesFile, podcastFile, bucket,
                 script, history, uploaded, doneToday, failedDay>>

\* ------------------------------------------------------------- the marker
\* Faulty variant: the marker is never written.
MarkNothing(p) ==
  /\ pc[p] = "mark"
  /\ pc' = [pc EXCEPT ![p] = IF variant = "app" THEN "done" ELSE "upload"]
  /\ doneToday' = (doneToday \/ (variant = "app" /\ startDay[p] = today))
  /\ UNCHANGED <<variant, today, lastRun, files, bucket, script, locals, err, history,
                 uploaded, failedDay>>

\* with open(LAST_RUN_FILE, "w"): write today's date.  app.py returns after it;
\* cloudflare_app.py goes on to the three uploads.
Mark(p) ==
  /\ pc[p] = "mark"
  /\ lastRun' = today
  /\ wroteMarker' = [wroteMarker EXCEPT ![p] = TRUE]
  /\ pc' = [pc EXCEPT ![p] = IF variant = "app" THEN "done" ELSE "upload"]
  /\ doneToday' = (doneToday \/ (variant = "app" /\ startDay[p] = today))
  /\ UNCHANGED <<variant, today, files, bucket, script, locals, err, calls, sleeps,
                 firstGood, wrote, outOfOrder, startDay, uploaded, failedDay>>

\* ------------------------------------------------------------ upload_to_r2
\* upload_to_r2(PODCAST_FILE), (SHOW_NOTES_FILE), (CONVERSATION_FILE), in that
\* order; s3_client.upload_file raises on any failure and nothing catches it.
Upload(p) ==
  /\ pc[p] = "upload"
  /\ LET a == UploadOrder[uploaded[p] + 1]
         last == uploaded[p] + 1 = Len(UploadOrder)
     IN \E ok \in BOOLEAN :
          IF ok /\ FileOf(a).exists
            THEN /\ bucket' = bucket \cup {a}
                 /\ uploaded' = [uploaded EXCEPT ![p] = @ + 1]
                 /\ pc' = [pc EXCEPT ![p] = IF last THEN "done" ELSE "upload"]
                 /\ doneToday' = (doneToday \/ (last /\ startDay[p] = today))
                 /\ UNCHANGED <<err, locals, failedDay>>
            ELSE /\ Fail(p, "upload")
                 /\ failedDay' = lastRun
                 /\ UNCHANGED <<bucket, uploaded, doneToday>>
  /\ UNCHANGED <<variant, today, lastRun, files, script, history>>

\* ------------------------------------------------------- the script's end
\* app.py line 216: the script run was started by the button, so after the
\* call of line 163 returned, st.button is True and line 217 calls the very
\* same generate_podcast().
ForceButton(p) ==
  /\ variant = "app"
  /\ pc[p] \in {"done", "skipped"}
  /\ phase[p] = "load"
  /\ click[p]
  /\ phase' = [phase EXCEPT ![p] = "force"]
  /\ BeginInvocation(p)
  /\ UNCHANGED <<variant, today, lastRun, files, bucket, click, items, doneToday, failedDay>>

\* app.py line 218: st.rerun() runs the script again from the top.
Rerun(p) ==
  /\ variant = "app"
  /\ pc[p] \in {"done", "skipped"}
  /\ phase[p] = "force"
  /\ \E f \in Feeds : items' = [items EXCEPT ![p] = f]
  /\ phase' = [phase EXCEPT ![p] = "load"]
  /\ click' = [click EXCEPT ![p] = FALSE]
  /\ BeginInvocation(p)
  /\ UNCHANGED <<variant, today, lastRun, files, bucket, doneToday, failedDay>>

\* The cycle returned and nothing else is left to run.
Finish(p) ==
  /\ pc[p] \in {"done", "skipped"}
  /\ variant = "cloudflare" \/ (phase[p] = "load" /\ ~click[p])
  /\ EndScript(p)
  /\ UNCHANGED <<variant, today, lastRun, files, bucket, doneToday, failedDay>>

\* The exception leaves the cycle and ends the script run.
Abort(p) ==
  /\ pc[p] = "failed"
  /\ EndScript(p)
  /\ UNCHANGED <<variant, today, lastRun, files, bucket, doneToday, failedDay>>

\* Midnight: datetime.today() moves to the next calendar day.
Tick ==
  /\ today < MaxDay
  /\ today' = today + 1
  /\ doneToday' = FALSE
  /\ UNCHANGED <<variant, lastRun, files, bucket, pc, script, locals, err, history,
                 uploaded, failedDay>>

\* ------------------------------------------------------------ the systems
AfterExtract(p) ==
  \/ RunScript(p)
  \/ Gate(p)
  \/ Sleep(p)
  \/ SaveShowNotes(p)
  \/ Launch(p)
  \/ \E i \in 1..MaxLines : TaskDone(p, i)
  \/ \E i \in 1..MaxLines : TaskFail(p, i)
  \/ Join(p)
  \/ Merge(p)
  \/ Remove(p)
  \/ Mark(p)
  \/ Upload(p)
  \/ ForceButton(p)
  \/ Rerun(p)
  \/ Finish(p)
  \/ Abort(p)

Step(p) == Extract(p) \/ AfterExtract(p)

\* One script run at a time: every invocation ends before the next begins.
Next == Step(1) \/ Tick

Spec == Init /\ [][Next]_vars

\* Two script runs in the same directory on one day, interleaved statement by
\* statement; the endpoint either returns no JSON or the full dialogue.
RaceResponses ==
  { [kind |-> "no_match", value |-> NoJson],
    [kind |-> "json",
     value |-> [hasConversation |-> TRUE, conversation |-> Dialogue(MaxLines, 1)]] }

RaceStep(p) == ExtractFrom(p, RaceResponses) \/ AfterExtract(p)

NextRace == \E p \in Procs : RaceStep(p)

SpecRace == Init /\ [][NextRace]_vars


\* ================================================================ claims
Generating == {"extract", "sleep", "save_notes", "launch", "gather", "merge",
               "remove", "mark", "upload"}
Merging == {"merge", "remove", "mark", "upload", "done"}
Hosts == {"Brian", "Jenny"}
SpeechOf(c) == [i \in 1..Len(c) |-> Speech(c[i])]
AllDone(p) == \A i \in 1..N(p) : tasks[p][i] = "done"

\* C1: once a cycle has begun and succeeded within the current calendar day,
\* no later non-forced invocation of that day generates anything: it stops at
\* the gate, and an invocation skipped by the gate has made no completion
\* call, started no synthesis, merged nothing, written no file and no marker.
C1_SecondRunSkips ==
  \A p \in Procs :
    /\ doneToday => pc[p] \notin (Generating \cup {"failed"})
    /\ pc[p] = "skipped" =>
         /\ calls[p] = 0 /\ sleeps[p] = 0
         /\ tasks[p] = <<>>
         /\ wrote[p] = {} /\ ~wroteMarker[p]
         /\ uploaded[p] = 0

\* C1 witness: after a cycle succeeded today, the next page load is skipped.
C1_Witness ==
  doneToday /\ pc[1] = "skipped" /\ phase[1] = "load" /\ lastRun = today

\* C2: a forced invocation (the button's call) is never skipped by the gate.
C2_ForcedAlwaysGenerates ==
  \A p \in Procs : phase[p] = "force" => pc[p] # "skipped"

\* C3: a cycle that has written the marker has written the conversation JSON,
\* the show notes and the episode before.
C3_MarkerAfterArtifacts ==
  \A p \in Procs : wroteMarker[p] => wrote[p] = Artifacts

\* C3 witness: a cycle has just set the marker to today's date.
C3_Witness ==
  wroteMarker[1] /\ lastRun = today /\ pc[1] \in {"done", "upload"}

\* C4: a cycle that failed in generation, synthesis or merge, after an earlier
\* successful cycle, has overwritten none of the three artifacts.
C4_FailedCycleLeavesArtifacts ==
  \A p \in Procs :
    (pc[p] = "failed" /\ err[p] \in {"extract", "synthesis", "merge"} /\ lastRun # NoDate)
      => wrote[p] = {}

C6_TurnOrderPreserved ==
  \A p \in Procs :
    /\ pc[p] = "merge" =>
         \A i \in 1..N(p) :
           audioFiles[audio_files(p)[i]] = Speech(conversation[p].conversation[i])
    /\ pc[p] \in (Merging \ {"merge"}) =>
         podcastFile.data = SpeechOf(conversation[p].conversation)

\* C6 witness: an episode of at least two lines was merged after a later line's
\* task finished before an earlier one's.
C6_Witness ==
  pc[1] = "remove" /\ N(1) >= 2 /\ outOfOrder[1] /\ podcastFile.exists

\* C7: the conversation JSON on disk holds a non-empty conversation whose
\* speakers are all one of the two hosts.
C7_PersistedConversationValid ==
  convFile.exists =>
    /\ convFile.data.hasConversation
    /\ Len(convFile.data.conversation) >= 1
    /\ \A i \in 1..Len(convFile.data.conversation) :
         convFile.data.conversation[i].speaker \in Hosts

\* C8: every line has its task by the time the cycle awaits; the merge and all
\* that follows it run only with every task finished successfully; a cycle whose
\* synthesis failed has written no episode and no marker.
C8_JoinAllOrNothing ==
  \A p \in Procs :
    /\ pc[p] = "gather" => Len(tasks[p]) = N(p)
    /\ pc[p] \in Merging => (Len(tasks[p]) = N(p) /\ AllDone(p))
    /\ "episode" \in wrote[p] => AllDone(p)
    /\ (pc[p] = "failed" /\ err[p] = "synthesis")
         => ("episode" \notin wrote[p] /\ ~wroteMarker[p])

\* C8 witness: one task finished and left its clip, another failed, and the
\* cycle stopped with the conversation and the notes written.
C8_Witness ==
  /\ pc[1] = "failed" /\ err[1] = "synthesis"
  /\ \E f \in DOMAIN audioFiles : audioFiles[f] # NoClip
  /\ wrote[1] = {"conversation", "notes"}

\* C9: the gate decides on the marker alone: an invocation is skipped only when
\* the marker holds today's date and passes whenever it does not, whatever
\* other invocations are doing at that moment.
C9_GateReadsMarkerOnly ==
  [][\A p \in Procs :
       /\ (pc[p] = "gate" /\ pc'[p] = "skipped") => lastRun = today
       /\ (pc[p] = "gate" /\ pc'[p] = "extract") => lastRun # today]_vars

\* C9 witness: two non-forced invocations of the same day are both past the
\* gate, both have overwritten the conversation file and both are writing clips.
C9_Witness ==
  /\ \A p \in Procs :
       /\ pc[p] = "gather" /\ phase[p] = "load" /\ startDay[p] = today
       /\ "conversation" \in wrote[p]
  /\ lastRun # today

\* C10: an upload is attempted only by a cycle that has written the three
\* artifacts and the marker; and while today is the date that marker held when
\* an upload failed, no invocation passes the gate and nothing is uploaded.
C10_FailedUploadNotRetried ==
  [][/\ \A p \in Procs :
          (pc'[p] = "upload" \/ (pc'[p] = "failed" /\ err'[p] = "upload"))
            => (wroteMarker'[p] /\ wrote'[p] = Artifacts)
     /\ (failedDay = today /\ today' = today) =>
          /\ bucket' = bucket
          /\ \A p \in Procs :
               /\ uploaded'[p] <= uploaded[p]
               /\ ~(pc[p] = "gate" /\ pc'[p] = "extract")]_vars

\* C10 witness: an upload failed today with the bucket incomplete, and the next
\* invocation of the day was skipped.
C10_Witness ==
  /\ variant = "cloudflare" /\ failedDay = today
  /\ pc[1] = "skipped" /\ bucket # Artifacts

====
